---- MODULE Spec2Model ----
(***************************************************************************)
(* Model of the personal finance tracker (Financial Tracker.py and         *)
(* thecallfunc.py): the interactive workflow of main() and the tabular     *)
(* computations each of its steps performs.                                *)
(*                                                                         *)
(* Amounts are integers (whole dollars); binary floating point rounding is *)
(* not modelled.  The values float() can return that are not ordinary      *)
(* numbers (NaN) are modelled, because comparisons treat them differently. *)
(***************************************************************************)
EXTENDS Integers, Sequences, FiniteSets, TLC

(* ------------------------------ bounds --------------------------------- *)
\* largest number of data rows in an input file
MaxRows == 2

(* --------------------------- input universe ---------------------------- *)
\* raw Date cells of the CSV: a calendar date, or text that is not a date
BadDate == [kind |-> "text", y |-> 0, m |-> 0, d |-> 0]
DateCells ==
    { BadDate,
      [kind |-> "date", y |-> 2023, m |-> 12, d |-> 5],
      [kind |-> "date", y |-> 2024, m |-> 1,  d |-> 20],
      [kind |-> "date", y |-> 2024, m |-> 2,  d |-> 1] }

\* raw Amount cells: a number, an empty cell, or text that is not a number
BlankAmount == [kind |-> "blank", val |-> 0]
TextAmount  == [kind |-> "text",  val |-> 0]
AmountValues == {-50, 100, 500}
AmountCells ==
    { BlankAmount, TextAmount } \cup { [kind |-> "num", val |-> v] : v \in AmountValues }

\* raw Quarter cells: the column is absent, the cell is empty, or a label "<y>Q<p>"
AbsentQuarter == [kind |-> "absent", y |-> 0, p |-> 0]
BlankQuarter  == [kind |-> "blank",  y |-> 0, p |-> 0]
QuarterLabels == { [kind |-> "label", y |-> 2024, p |-> 1] }

RowsWith(QCells) ==
    [Date : DateCells, Amount : AmountCells, Quarter : QCells]

SeqsUpTo(S, n) == UNION { [1..k -> S] : k \in 0..n }

\* the files the user can name at the prompt
NotFound == [found |-> FALSE, cols |-> {}, rows |-> << >>]
Files ==
    { NotFound }
    \cup { [found |-> TRUE, cols |-> c, rows |-> << >>] :
              c \in { {}, {"Date"}, {"Amount"}, {"Amount", "Quarter"} } }
    \cup { [found |-> TRUE, cols |-> {"Date", "Amount"}, rows |-> r] :
              r \in SeqsUpTo(RowsWith({AbsentQuarter}), MaxRows) }
    \cup { [found |-> TRUE, cols |-> {"Date", "Amount", "Quarter"}, rows |-> r] :
              r \in SeqsUpTo(RowsWith({BlankQuarter} \cup QuarterLabels), MaxRows) }

\* the strings the user can type at the limit prompt, as character sequences
LimitInputs ==
    { << >>,
      <<"a", "b", "c">>,
      <<"0">>,
      <<"-", "5">>,
      <<"1", "0", "0">>,
      <<"n", "a", "n">> }

(* ------------------------------ float() -------------------------------- *)
Digits == {"0", "1", "2", "3", "4", "5", "6", "7", "8", "9"}
DigitVal(c) ==
    CASE c = "0" -> 0 [] c = "1" -> 1 [] c = "2" -> 2 [] c = "3" -> 3
      [] c = "4" -> 4 [] c = "5" -> 5 [] c = "6" -> 6 [] c = "7" -> 7
      [] c = "8" -> 8 [] c = "9" -> 9

RECURSIVE DigitsValue(_)
DigitsValue(s) ==
    IF s = << >> THEN 0
    ELSE 10 * DigitsValue(SubSeq(s, 1, Len(s) - 1)) + DigitVal(s[Len(s)])

AllDigits(s) == s # << >> /\ \A i \in 1..Len(s) : s[i] \in Digits

NaN == [kind |-> "nan", val |-> 0]
Num(v) == [kind |-> "num", val |-> v]
ParseError == [kind |-> "error", val |-> 0]

\* float(limit_str): a number, NaN, or a ValueError
float(s) ==
    IF s = <<"n", "a", "n">> THEN NaN
    ELSE IF AllDigits(s) THEN Num(DigitsValue(s))
    ELSE IF s # << >> /\ s[1] = "-" /\ AllDigits(Tail(s)) THEN Num(0 - DigitsValue(Tail(s)))
    ELSE IF s # << >> /\ s[1] = "+" /\ AllDigits(Tail(s)) THEN Num(DigitsValue(Tail(s)))
    ELSE ParseError

\* x <= c on floats: every comparison with NaN is false
FloatLe(x, c) == x.kind = "num" /\ x.val <= c

\* t > x on floats, t a number
\* variant: total >= limit
FloatGt_ge(t, x) == x.kind = "num" /\ t >= x.val
FloatGt(t, x) == x.kind = "num" /\ t > x.val

(* ------------------------- periods and series -------------------------- *)
\* pd.to_datetime(..., errors="coerce") on one cell: a Timestamp, or NaT
NaT == [nat |-> TRUE, y |-> 0, m |-> 0, d |-> 0]
to_datetime(cell) ==
    IF cell.kind = "date"
    THEN [nat |-> FALSE, y |-> cell.y, m |-> cell.m, d |-> cell.d]
    ELSE NaT

\* Timestamp.to_period('M') and Timestamp.to_period('Q')
to_period_M(ts) == [y |-> ts.y, p |-> ts.m]
to_period_Q(ts) == [y |-> ts.y, p |-> ((ts.m - 1) \div 3) + 1]

\* chronological position of a period (periods of one frequency only)
Ordinal(k) == k.y * 12 + k.p

RECURSIVE SortKeys(_)
\* the keys of a groupby(sort=True) result: ascending, each once
SortKeys(S) ==
    IF S = {} THEN << >>
    ELSE LET least == CHOOSE k \in S : \A j \in S : Ordinal(k) <= Ordinal(j)
         IN  <<least>> \o SortKeys(S \ {least})

RECURSIVE SumWhere(_, _, _)
\* sum of Amount over the rows whose key equals k, in row order
SumWhere(rows, keys, k) ==
    IF rows = << >> THEN 0
    ELSE (IF keys[1] = k THEN rows[1].Amount.val ELSE 0)
         + SumWhere(Tail(rows), Tail(keys), k)

IsNaKey(k) == k.y = 0

\* df.groupby(key)['Amount'].sum(): rows whose key is missing are left out
\* (dropna=True), one entry per remaining key, ascending by key
GroupBySum(rows, keys) ==
    LET present == { keys[i] : i \in { j \in 1..Len(keys) : ~IsNaKey(keys[j]) } }
        index   == SortKeys(present)
    IN  [i \in 1..Len(index) |->
            [key |-> index[i], value |-> SumWhere(rows, keys, index[i])]]

(* -------------------------- Ledger loader ------------------------------ *)
\* dtype pandas.read_csv gives the Amount column: object as soon as one cell
\* is not a number (every cell is then kept as a string), float64 otherwise
AmountDtype(f) ==
    IF \E i \in 1..Len(f.rows) : f.rows[i].Amount.kind = "text"
    THEN "object" ELSE "float64"

\* variant: dropna(subset=['Date'])
NotNa_DateOnly(r) == ~r.Date.nat

\* rows kept by dropna(subset=['Date', 'Amount'])
NotNa(r) == ~r.Date.nat /\ r.Amount.kind # "blank"

NoData == [dtype |-> "float64", hasQuarter |-> FALSE, rows |-> << >>]

\* one pass of the loop of import_and_process_data on the file named at the
\* prompt: the cleaned frame, or the exception that makes the loop repeat
import_and_process_data(f) ==
    IF ~f.found THEN [ok |-> FALSE, error |-> "FileNotFoundError", df |-> NoData]
    ELSE IF ~({"Date", "Amount"} \subseteq f.cols)
    THEN [ok |-> FALSE, error |-> "ValueError", df |-> NoData]
    ELSE
      LET parsed == [i \in 1..Len(f.rows) |->
                        [Date     |-> to_datetime(f.rows[i].Date),
                         Amount   |-> f.rows[i].Amount,
                         Quarter  |-> f.rows[i].Quarter]]
          kept   == SelectSeq(parsed, NotNa)
          withM  == [i \in 1..Len(kept) |->
                        [Date    |-> kept[i].Date,
                         Amount  |-> kept[i].Amount,
                         Quarter |-> kept[i].Quarter,
                         Month   |-> to_period_M(kept[i].Date)]]
      IN  [ok |-> TRUE, error |-> "none",
           df |-> [dtype      |-> AmountDtype(f),
                   hasQuarter |-> "Quarter" \in f.cols,
                   rows       |-> withM]]

(* -------------------------- calculate_and_alert ------------------------ *)
RECURSIVE SumValues(_)
\* Series.sum()
SumValues(series) ==
    IF series = << >> THEN 0 ELSE series[1].value + SumValues(Tail(series))

RECURSIVE AlertLoop(_, _)
\* the loop over monthly_totals.items() that prints one alert per month whose
\* total is over the limit; the result is the printed alerts, in print order
AlertLoop(series, lim) ==
    IF series = << >> THEN << >>
    ELSE (IF FloatGt(series[1].value, lim) THEN <<series[1]>> ELSE << >>)
         \o AlertLoop(Tail(series), lim)

\* variant: monthly_totals.mean() without the guard for no months
average_spending_unguarded(series) ==
    [num |-> SumValues(series), den |-> Len(series)]

\* monthly_totals.mean() if len(monthly_totals) else 0.0, as a fraction
average_spending(series) ==
    IF Len(series) # 0
    THEN [num |-> SumValues(series), den |-> Len(series)]
    ELSE [num |-> 0, den |-> 1]

\* average_spending * 0.9, as a fraction
suggested_budget_of(series) ==
    LET avg == average_spending(series)
    IN  [num |-> avg.num * 9, den |-> avg.den * 10]

MonthKeys(rows) == [i \in 1..Len(rows) |-> rows[i].Month]

\* calculate_and_alert(transactions, limit).  With an Amount column of dtype
\* object the per-month sums are strings and the first formatted print
\* (${total:,.2f}) raises; nothing is printed when there are no rows.
calculate_and_alert(df, lim) ==
    LET totals == GroupBySum(df.rows, MonthKeys(df.rows))
        found  == AlertLoop(totals, lim)
    IN  IF df.dtype = "object" /\ df.rows # << >>
        THEN [raised |-> TRUE, monthly_totals |-> << >>, alerts |-> << >>,
              none_printed |-> FALSE, suggested_budget |-> [num |-> 0, den |-> 1]]
        ELSE [raised |-> FALSE, monthly_totals |-> totals, alerts |-> found,
              none_printed |-> (found = << >>),
              suggested_budget |-> suggested_budget_of(totals)]

(* --------------------------- additional_reports ------------------------ *)
NoPeriod == [y |-> 0, p |-> 0]

RECURSIVE ArgMaxFrom_last(_, _, _)
\* variant: the last occurrence of the maximum
ArgMaxFrom_last(series, i, best) ==
    IF i > Len(series) THEN best
    ELSE ArgMaxFrom_last(series, i + 1,
                         IF series[i].value >= series[best].value THEN i ELSE best)

RECURSIVE ArgMaxFrom(_, _, _)
\* Series.idxmax(): position of the first occurrence of the maximum
ArgMaxFrom(series, i, best) ==
    IF i > Len(series) THEN best
    ELSE ArgMaxFrom(series, i + 1,
                    IF series[i].value > series[best].value THEN i ELSE best)

idxmax(series) == series[ArgMaxFrom(series, 2, 1)].key

RECURSIVE CumFrom_nocarry(_, _)
\* variant: the running total is not carried to the next entry
CumFrom_nocarry(series, carry) ==
    IF series = << >> THEN << >>
    ELSE <<[key |-> series[1].key, value |-> carry + series[1].value]>>
         \o CumFrom_nocarry(Tail(series), carry)

RECURSIVE CumFrom(_, _)
\* Series.cumsum(): running total carried along the index
CumFrom(series, carry) ==
    IF series = << >> THEN << >>
    ELSE <<[key |-> series[1].key, value |-> carry + series[1].value]>>
         \o CumFrom(Tail(series), carry + series[1].value)

cumsum(series) == CumFrom(series, 0)

additional_reports(totals) ==
    IF totals = << >>
    THEN [highest_month |-> NoPeriod, cumulative_spending |-> << >>]
    ELSE [highest_month |-> idxmax(totals), cumulative_spending |-> cumsum(totals)]

(* ---------------------- visualize_quarterly_spending ------------------- *)
\* the Quarter column used for grouping: the file's own column when it has
\* one (an empty cell is a missing key), else derived from Date
QuarterKeys(df) ==
    [i \in 1..Len(df.rows) |->
        IF df.hasQuarter
        THEN (IF df.rows[i].Quarter.kind = "label"
              THEN [y |-> df.rows[i].Quarter.y, p |-> df.rows[i].Quarter.p]
              ELSE NoPeriod)
        ELSE to_period_Q(df.rows[i].Date)]

quarterly_totals_of(df) == GroupBySum(df.rows, QuarterKeys(df))

(* -------------------------- monthly_comparison ------------------------- *)
\* direction printed for each month: "above" when total - average > 0
monthly_comparison(totals) ==
    LET avg == average_spending(totals)
    IN  [i \in 1..Len(totals) |->
            [key |-> totals[i].key,
             direction |-> IF totals[i].value * avg.den - avg.num > 0
                           THEN "above" ELSE "below"]]

(* -------------------------- transaction_summary ------------------------ *)
\* len(transactions[mask]) for a boolean mask over the rows
CountTrue(mask) == Cardinality({ i \in 1..Len(mask) : mask[i] })

IsSmall(r)  == r.Amount.val < 100
\* variant: lower boundary excluded
IsMedium_gt(r) == r.Amount.val > 100 /\ r.Amount.val < 500
IsMedium(r) == r.Amount.val >= 100 /\ r.Amount.val < 500
IsLarge(r)  == r.Amount.val >= 500

transaction_summary(df) ==
    [total  |-> Len(df.rows),
     small  |-> CountTrue([i \in 1..Len(df.rows) |-> IsSmall(df.rows[i])]),
     medium |-> CountTrue([i \in 1..Len(df.rows) |-> IsMedium(df.rows[i])]),
     large  |-> CountTrue([i \in 1..Len(df.rows) |-> IsLarge(df.rows[i])])]

(* ------------------------------- main ---------------------------------- *)
VARIABLES
    pc,                  \* the step main() is about to run, "Done", or "Error"
    file,                \* the file named at the last file prompt
    transactions,        \* the frame returned by import_and_process_data
    limit_str,           \* the text typed at the last limit prompt
    limit,               \* the local variable limit of main
    monthly_totals,      \* result of calculate_and_alert
    alerts,              \* the alert lines calculate_and_alert printed
    none_printed,        \* whether it printed "None." under the alerts heading
    suggested_budget,    \* the suggested budget it printed
    highest_month,       \* first result of additional_reports
    cumulative_spending, \* second result of additional_reports
    quarterly_totals,    \* the series visualize_quarterly_spending charts
    comparison,          \* the lines monthly_comparison printed
    summary,             \* the counts transaction_summary printed
    console,             \* the kind of the last message on the console
    runs                 \* how many times each step has run to completion

vars == <<pc, file, transactions, limit_str, limit, monthly_totals, alerts,
          none_printed, suggested_budget, highest_month, cumulative_spending,
          quarterly_totals, comparison, summary, console, runs>>

Steps == <<"Load", "SetLimit", "Calc", "Reports", "Quarterly", "Detail",
           "Compare", "Summary">>
StepSet == { Steps[i] : i \in 1..Len(Steps) }

Unset == [kind |-> "unset", val |-> 0]
NoSummary == [total |-> 0, small |-> 0, medium |-> 0, large |-> 0]

Init ==
    /\ pc = "Load"
    /\ file = NotFound
    /\ transactions = NoData
    /\ limit_str = << >>
    /\ limit = Unset
    /\ monthly_totals = << >>
    /\ alerts = << >>
    /\ none_printed = FALSE
    /\ suggested_budget = [num |-> 0, den |-> 1]
    /\ highest_month = NoPeriod
    /\ cumulative_spending = << >>
    /\ quarterly_totals = << >>
    /\ comparison = << >>
    /\ summary = NoSummary
    /\ console = "welcome"
    /\ runs = [s \in StepSet |-> 0]

Ran(step) == [runs EXCEPT ![step] = @ + 1]

\* Step 1: one pass of the while-True loop of import_and_process_data
Load ==
    /\ pc = "Load"
    /\ \E f \in Files :
         LET r == import_and_process_data(f)
         IN  /\ file' = f
             /\ IF r.ok
                THEN /\ transactions' = r.df
                     /\ console' = "loaded"
                     /\ runs' = Ran("Load")
                     /\ pc' = "SetLimit"
                ELSE /\ console' = "load_error"
                     /\ UNCHANGED <<transactions, runs, pc>>
    /\ UNCHANGED <<limit_str, limit, monthly_totals, alerts, none_printed,
                   suggested_budget, highest_month, cumulative_spending,
                   quarterly_totals, comparison, summary>>

\* Step 2: one pass of the while-True loop that asks for the limit
SetLimit ==
    /\ pc = "SetLimit"
    /\ \E s \in LimitInputs :
         LET v == float(s)
         IN  /\ limit_str' = s
             /\ IF v.kind = "error"
                THEN /\ console' = "limit_error"
                     /\ UNCHANGED <<limit, runs, pc>>
                ELSE /\ limit' = v
                     /\ IF FloatLe(v, 0)
                        THEN /\ console' = "limit_error"
                             /\ UNCHANGED <<runs, pc>>
                        ELSE /\ console' = "limit_prompt"
                             /\ runs' = Ran("SetLimit")
                             /\ pc' = "Calc"
    /\ UNCHANGED <<file, transactions, monthly_totals, alerts, none_printed,
                   suggested_budget, highest_month, cumulative_spending,
                   quarterly_totals, comparison, summary>>

\* Step 3: monthly_totals = calculate_and_alert(transactions, limit)
Calc ==
    /\ pc = "Calc"
    /\ LET r == calculate_and_alert(transactions, limit)
       IN  IF r.raised
           THEN /\ pc' = "Error"
                /\ console' = "traceback"
                /\ UNCHANGED <<monthly_totals, alerts, none_printed,
                               suggested_budget, runs>>
           ELSE /\ monthly_totals' = r.monthly_totals
                /\ alerts' = r.alerts
                /\ none_printed' = r.none_printed
                /\ suggested_budget' = r.suggested_budget
                /\ console' = "suggested_budget"
                /\ runs' = Ran("Calc")
                /\ pc' = "Reports"
    /\ UNCHANGED <<file, transactions, limit_str, limit, highest_month,
                   cumulative_spending, quarterly_totals, comparison, summary>>

\* Step 4: _highest_month, cumulative_spending = additional_reports(monthly_totals)
Reports ==
    /\ pc = "Reports"
    /\ LET r == additional_reports(monthly_totals)
       IN  /\ highest_month' = r.highest_month
           /\ cumulative_spending' = r.cumulative_spending
    /\ console' = IF monthly_totals = << >> THEN "no_data" ELSE "cumulative"
    /\ runs' = Ran("Reports")
    /\ pc' = "Quarterly"
    /\ UNCHANGED <<file, transactions, limit_str, limit, monthly_totals, alerts,
                   none_printed, suggested_budget, quarterly_totals, comparison,
                   summary>>

\* what Series.plot(kind="bar") does with a series: a chart, or, for a series
\* without entries, whatever the plotting library does then (it may raise)
BarPlotOutcomes(series) == IF series = << >> THEN {"chart", "raise"} ELSE {"chart"}

\* Step 5: visualize_quarterly_spending(transactions, show=True)
Quarterly ==
    /\ pc = "Quarterly"
    /\ quarterly_totals' = quarterly_totals_of(transactions)
    /\ \E o \in BarPlotOutcomes(quarterly_totals_of(transactions)) :
         IF o = "raise"
         THEN /\ pc' = "Error"
              /\ console' = "traceback"
              /\ UNCHANGED runs
         ELSE /\ pc' = "Detail"
              /\ runs' = Ran("Quarterly")
              /\ UNCHANGED console
    /\ UNCHANGED <<file, transactions, limit_str, limit, monthly_totals, alerts,
                   none_printed, suggested_budget, highest_month,
                   cumulative_spending, comparison, summary>>

\* Step 6: visualize_spending(monthly_totals, cumulative_spending)
Detail ==
    /\ pc = "Detail"
    /\ \E o \in BarPlotOutcomes(monthly_totals) :
         IF o = "raise"
         THEN /\ pc' = "Error"
              /\ console' = "traceback"
              /\ UNCHANGED runs
         ELSE /\ pc' = "Compare"
              /\ runs' = Ran("Detail")
              /\ UNCHANGED console
    /\ UNCHANGED <<file, transactions, limit_str, limit, monthly_totals, alerts,
                   none_printed, suggested_budget, highest_month,
                   cumulative_spending, quarterly_totals, comparison, summary>>

\* Step 7: monthly_comparison(monthly_totals)
Compare ==
    /\ pc = "Compare"
    /\ comparison' = monthly_comparison(monthly_totals)
    /\ console' = "comparison"
    /\ runs' = Ran("Compare")
    /\ pc' = "Summary"
    /\ UNCHANGED <<file, transactions, limit_str, limit, monthly_totals, alerts,
                   none_printed, suggested_budget, highest_month,
                   cumulative_spending, quarterly_totals, summary>>

\* Step 8: transaction_summary(transactions), then the closing message
Summary ==
    /\ pc = "Summary"
    /\ summary' = transaction_summary(transactions)
    /\ console' = "thanks"
    /\ runs' = Ran("Summary")
    /\ pc' = "Done"
    /\ UNCHANGED <<file, transactions, limit_str, limit, monthly_totals, alerts,
                   none_printed, suggested_budget, highest_month,
                   cumulative_spending, quarterly_totals, comparison>>

Next ==
    \/ Load
    \/ SetLimit
    \/ Calc
    \/ Reports
    \/ Quarterly
    \/ Detail
    \/ Compare
    \/ Summary

Spec == Init /\ [][Next]_vars

(* ============================ properties =============================== *)
RECURSIVE SumOver(_, _)
\* sum of f[i] over the indices i in S
SumOver(f, S) ==
    IF S = {} THEN 0
    ELSE LET i == CHOOSE j \in S : TRUE IN f[i] + SumOver(f, S \ {i})

Values(series) == [i \in 1..Len(series) |-> series[i].value]
Keys(series) == { series[i].key : i \in 1..Len(series) }
Amounts(rows) == [i \in 1..Len(rows) |-> rows[i].Amount.val]
Total(series) == SumOver(Values(series), 1..Len(series))

Chronological(series) ==
    \A i, j \in 1..Len(series) :
        i < j => Ordinal(series[i].key) < Ordinal(series[j].key)

\* C1: for every non-empty retained transaction set, also one loaded from a
\* file with its own Quarter column, the monthly totals, the quarterly
\* totals and the retained amounts all have the same sum (stated once the
\* quarterly totals have been computed, whatever the chart then does).
C1_SumsAgree ==
    (runs["Reports"] = 1 /\ pc # "Quarterly" /\ transactions.rows # << >>)
    => /\ Total(monthly_totals) = Total(quarterly_totals)
       /\ Total(monthly_totals)
            = SumOver(Amounts(transactions.rows), 1..Len(transactions.rows))

\* C2: the alerts are exactly the months whose total is strictly greater
\* than the limit, in ascending chronological order, each with its total; a
\* month whose total equals the limit is not alerted; "None" is printed if
\* and only if no month exceeds the limit.
Exceeding ==
    { monthly_totals[i].key :
        i \in { j \in 1..Len(monthly_totals) :
                  limit.kind = "num" /\ monthly_totals[j].value > limit.val } }

C2_AlertsExact ==
    runs["Calc"] = 1
    => /\ Keys(alerts) = Exceeding
       /\ Chronological(alerts)
       /\ \A i \in 1..Len(alerts) : \E j \in 1..Len(monthly_totals) :
              alerts[i] = monthly_totals[j]
       /\ \A j \in 1..Len(monthly_totals) :
              (limit.kind = "num" /\ monthly_totals[j].value = limit.val)
              => monthly_totals[j].key \notin Keys(alerts)
       /\ none_printed <=> (Exceeding = {})

\* a month exactly at the limit next to a month over it
C2_Witness ==
    /\ runs["Calc"] = 1
    /\ Len(alerts) = 1
    /\ \E j \in 1..Len(monthly_totals) :
          limit.kind = "num" /\ monthly_totals[j].value = limit.val

Position(p) ==
    IF p = "Done" THEN Len(Steps) + 1
    ELSE CHOOSE i \in 1..Len(Steps) : Steps[i] = p

\* C3: the steps run in the fixed order Load, SetLimit, ..., Summarize; every
\* step before the current one has run exactly once, no later one has run,
\* and the workflow never leaves this sequence before Done.
C3_FixedOrderToDone ==
    /\ pc \in StepSet \cup {"Done"}
    /\ \A i \in 1..Len(Steps) :
          runs[Steps[i]] = IF i < Position(pc) THEN 1 ELSE 0

\* C4: once a dataset is loaded and a limit accepted, no later step ends in
\* an error.
C4_NoErrorAfterInput ==
    (runs["Load"] = 1 /\ runs["SetLimit"] = 1) => console # "traceback"

\* C5: the limit loop is left only with a number greater than zero, so the
\* limit calculate_and_alert receives is a number > 0.
C5_LimitPositive ==
    pc \notin {"Load", "SetLimit"} => (limit.kind = "num" /\ limit.val > 0)

\* C6: for non-empty monthly totals the cumulative series has the same months
\* in the same chronological order, and its value at month k is the sum of
\* the monthly totals of the months up to and including k.
C6_CumulativeExact ==
    (runs["Reports"] = 1 /\ monthly_totals # << >>)
    => /\ Len(cumulative_spending) = Len(monthly_totals)
       /\ Chronological(cumulative_spending)
       /\ \A k \in 1..Len(monthly_totals) :
            /\ cumulative_spending[k].key = monthly_totals[k].key
            /\ cumulative_spending[k].value = SumOver(Values(monthly_totals), 1..k)

\* two months, one of them with a negative total
C6_Witness ==
    /\ runs["Reports"] = 1
    /\ Len(cumulative_spending) = 2
    /\ \E k \in 1..Len(monthly_totals) : monthly_totals[k].value < 0

\* C7: every retained transaction is counted in exactly one of Small
\* (< 100), Medium (100 <= amount < 500), Large (>= 500); the counts add up
\* to the number of transactions; 100 is Medium and 500 is Large.
AmountsIn(lo, hi) ==
    { i \in 1..Len(transactions.rows) :
        lo <= transactions.rows[i].Amount.val /\ transactions.rows[i].Amount.val <= hi }
AmountsBelow(x) ==
    { i \in 1..Len(transactions.rows) : transactions.rows[i].Amount.val < x }

C7_BucketsPartition ==
    runs["Summary"] = 1
    => /\ summary.total = Len(transactions.rows)
       /\ summary.small + summary.medium + summary.large = summary.total
       /\ summary.small = Cardinality(AmountsBelow(100))
       /\ summary.medium = Cardinality(AmountsIn(100, 499))
       /\ summary.large = Len(transactions.rows) - Cardinality(AmountsBelow(500))

\* one transaction of exactly 100 and one of exactly 500
C7_Witness ==
    /\ runs["Summary"] = 1
    /\ AmountsIn(100, 100) # {}
    /\ AmountsIn(500, 500) # {}
    /\ summary.medium = 1
    /\ summary.large = 1

\* C8: a file with Date and Amount columns is accepted, and the frame
\* returned holds, in file order, exactly the rows whose Date is a calendar
\* date and whose Amount is present, each with Month = (year, month) of its
\* date; a file that cannot be read or lacks one of the columns is rejected
\* and the prompt repeated.
Readable(f) == f.found /\ {"Date", "Amount"} \subseteq f.cols
GoodRows(f) ==
    { i \in 1..Len(f.rows) :
        f.rows[i].Date.kind = "date" /\ f.rows[i].Amount.kind # "blank" }
\* the k-th smallest element of a set of indices
Nth(S, k) == CHOOSE i \in S : Cardinality({ j \in S : j <= i }) = k

C8_LoaderKeepsGoodRows ==
    /\ (pc = "Load" /\ console = "load_error") => ~Readable(file)
    /\ (console # "welcome" /\ ~Readable(file)) => (pc = "Load" /\ runs["Load"] = 0)
    /\ runs["Load"] = 1
       => /\ Readable(file)
          /\ Len(transactions.rows) = Cardinality(GoodRows(file))
          /\ \A k \in 1..Len(transactions.rows) :
               LET src == file.rows[Nth(GoodRows(file), k)]
                   row == transactions.rows[k]
               IN  /\ row.Amount = src.Amount
                   /\ <<row.Date.y, row.Date.m, row.Date.d>>
                        = <<src.Date.y, src.Date.m, src.Date.d>>
                   /\ row.Month = [y |-> src.Date.y, p |-> src.Date.m]

\* a load that dropped a row with a bad date and one with a missing amount
\* cannot fit in one small file; this one drops one row and keeps one
C8_Witness ==
    /\ runs["Load"] = 1
    /\ Len(file.rows) = 2
    /\ Len(transactions.rows) = 1
    /\ \E i \in 1..2 : file.rows[i].Amount.kind = "blank"

\* C9: with no monthly totals additional_reports returns (None, empty);
\* otherwise the highest month has the maximum total and is the
\* chronologically first month that has it.
C9_HighestMonth ==
    runs["Reports"] = 1
    => IF monthly_totals = << >>
       THEN highest_month = NoPeriod /\ cumulative_spending = << >>
       ELSE \E i \in 1..Len(monthly_totals) :
              /\ highest_month = monthly_totals[i].key
              /\ \A j \in 1..Len(monthly_totals) :
                    monthly_totals[j].value <= monthly_totals[i].value
              /\ \A j \in 1..(i - 1) :
                    monthly_totals[j].value < monthly_totals[i].value

\* two months share the maximum
C9_Witness ==
    /\ runs["Reports"] = 1
    /\ Len(monthly_totals) = 2
    /\ monthly_totals[1].value = monthly_totals[2].value
    /\ highest_month = monthly_totals[1].key

\* C10: the suggested budget is 0.9 times the mean of the monthly totals,
\* the mean of no totals being 0: it is a well-defined number (no division
\* by zero), and 0 when there are no monthly totals.
C10_SuggestedBudget ==
    runs["Calc"] = 1
    => /\ suggested_budget.den # 0
       /\ monthly_totals = << >> => suggested_budget.num = 0
       /\ monthly_totals # << >>
          => suggested_budget.num * 10 * Len(monthly_totals)
               = 9 * Total(monthly_totals) * suggested_budget.den

\* the budget of a dataset that is empty after cleaning
C10_Witness ==
    /\ runs["Calc"] = 1
    /\ file.rows # << >>
    /\ monthly_totals = << >>
    /\ suggested_budget.num = 0

====
